---- MODULE Spec2Model ----
(***************************************************************************)
(* Model of src/src/udp/udp.py: the Udp segment class, its serializer,    *)
(* deserializer and checksum routines.                                     *)
(*                                                                         *)
(* Representation.  A Python str is a record [kind, s, fill]: the code     *)
(* points s followed by fill copies of the letter 'a' (code point 97).     *)
(* A bytearray is a record [b, fill]: the bytes b followed by fill bytes   *)
(* 0x61.  The run of 'a' lets the model hold the payloads of 65471..65508  *)
(* characters on which the code's limits act, without enumerating them.    *)
(***************************************************************************)
EXTENDS Integers, Sequences, FiniteSets, TLC

\* Longest explicit (non run-length) payload the constructor inputs carry.
MaxHead == 2

\* Udp.DATA_MAX_LENGTH
DATA_MAX_LENGTH == 65507

\* Udp.ZERO_BYTE
ZERO_BYTE == [b |-> <<0>>, fill |-> 0]

\* obj: the Udp instance.  last: the last call, its arguments and its outcome.
VARIABLES obj, last

vars == <<obj, last>>

----------------------------------------------------------------------------
(* Python values *)

Str(s, n) == [kind |-> "str", s |-> s, fill |-> n]

NoneValue == [kind |-> "NoneType", s |-> <<>>, fill |-> 0]

\* a bytes object passed where a str is expected
NonStrValue == [kind |-> "bytes", s |-> <<>>, fill |-> 0]

Bytes(b, n) == [b |-> b, fill |-> n]

\* len(str)
StrLen(d) == Len(d.s) + d.fill

\* len(bytearray)
BLen(x) == Len(x.b) + x.fill

\* b[i] for 0 <= i < len(b)
ByteAt(x, i) == IF i < Len(x.b) THEN x.b[i + 1] ELSE 97

\* b[lo:hi] for the header fields: Python clamps the slice to len(b)
Slice(x, lo, hi) ==
    LET top == IF hi < BLen(x) THEN hi ELSE BLen(x)
    IN  IF top <= lo THEN <<>> ELSE [i \in 1..(top - lo) |-> ByteAt(x, lo + i - 1)]

\* b[8:]
SliceFrom8(x) ==
    IF Len(x.b) >= 8
    THEN Bytes(SubSeq(x.b, 9, Len(x.b)), x.fill)
    ELSE Bytes(<<>>, IF BLen(x) > 8 THEN BLen(x) - 8 ELSE 0)

\* bytearray += bytearray
Concat(x, y) ==
    IF x.fill = 0 THEN Bytes(x.b \o y.b, y.fill)
    ELSE IF y.b = <<>> THEN Bytes(x.b, x.fill + y.fill)
    ELSE Bytes(x.b \o [i \in 1..x.fill |-> 97] \o y.b, y.fill)

\* int.from_bytes(seq, 'big')
RECURSIVE from_bytes(_)
from_bytes(seq) ==
    IF seq = <<>> THEN 0
    ELSE from_bytes(SubSeq(seq, 1, Len(seq) - 1)) * 256 + seq[Len(seq)]

\* h.to_bytes(2, 'big'): OverflowError unless 0 <= h < 2^16
to_bytes_ok(h) == h >= 0 /\ h <= 65535

to_bytes(h) == <<h \div 256, (h % 256)>>

----------------------------------------------------------------------------
(* str.encode('utf-8') and bytes.decode('utf-8') *)

IsSurrogate(cp) == cp >= 55296 /\ cp <= 57343

Utf8Char(cp) ==
    IF cp < 128 THEN <<cp>>
    ELSE IF cp < 2048 THEN <<192 + (cp \div 64), 128 + (cp % 64)>>
    ELSE IF cp < 65536
         THEN <<224 + (cp \div 4096), 128 + ((cp \div 64) % 64), 128 + (cp % 64)>>
    ELSE <<240 + (cp \div 262144), 128 + ((cp \div 4096) % 64),
           128 + ((cp \div 64) % 64), 128 + (cp % 64)>>

RECURSIVE Utf8Seq(_)
Utf8Seq(s) == IF s = <<>> THEN <<>> ELSE Utf8Char(Head(s)) \o Utf8Seq(Tail(s))

\* self.data.encode(self.ENCODING): UnicodeEncodeError on a lone surrogate
encode_ok(d) == \A i \in 1..Len(d.s) : ~IsSurrogate(d.s[i])

encode(d) == Bytes(Utf8Seq(d.s), d.fill)

Utf8Width(c) ==
    IF c < 128 THEN 1
    ELSE IF c >= 194 /\ c <= 223 THEN 2
    ELSE IF c >= 224 /\ c <= 239 THEN 3
    ELSE IF c >= 240 /\ c <= 244 THEN 4
    ELSE 0

IsCont(c) == c >= 128 /\ c <= 191

Utf8Point(b, i, n) ==
    IF n = 1 THEN b[i]
    ELSE IF n = 2 THEN (b[i] - 192) * 64 + (b[i + 1] - 128)
    ELSE IF n = 3 THEN (b[i] - 224) * 4096 + (b[i + 1] - 128) * 64 + (b[i + 2] - 128)
    ELSE (b[i] - 240) * 262144 + (b[i + 1] - 128) * 4096
         + (b[i + 2] - 128) * 64 + (b[i + 3] - 128)

Utf8Least(n) == IF n = 1 THEN 0 ELSE IF n = 2 THEN 128 ELSE IF n = 3 THEN 2048 ELSE 65536

\* strict decoding of the bytes b from index i on
RECURSIVE Utf8Decode(_, _)
Utf8Decode(b, i) ==
    IF i > Len(b) THEN [ok |-> TRUE, s |-> <<>>]
    ELSE LET n == Utf8Width(b[i])
             bad == [ok |-> FALSE, s |-> <<>>]
         IN  IF n = 0 \/ i + n - 1 > Len(b) THEN bad
             ELSE IF \E k \in 1..(n - 1) : ~IsCont(b[i + k]) THEN bad
             ELSE LET cp == Utf8Point(b, i, n)
                  IN  IF cp < Utf8Least(n) \/ cp > 1114111 \/ IsSurrogate(cp) THEN bad
                      ELSE LET rest == Utf8Decode(b, i + n)
                           IN  IF rest.ok THEN [ok |-> TRUE, s |-> <<cp>> \o rest.s]
                               ELSE bad

\* b[8:].decode(self.ENCODING): UnicodeDecodeError on malformed input
decode_ok(x) == Utf8Decode(x.b, 1).ok

decode(x) == Str(Utf8Decode(x.b, 1).s, x.fill)

----------------------------------------------------------------------------
(* The methods of class Udp.  Each returns the instance as the call left   *)
(* it, the exception raised ("none" when the call returned), and the       *)
(* returned value: num (int), flag (bool) or b (bytearray).                *)

Ret(self, exc, num, flag, b) ==
    [obj |-> self, exc |-> exc, num |-> num, flag |-> flag, b |-> b]

Raise(self, exc) == Ret(self, exc, 0, FALSE, Bytes(<<>>, 0))

set_data(self, data) ==
    IF data.kind = "NoneType" THEN Raise(self, "TypeError")
    ELSE IF data.kind # "str" THEN Raise(self, "TypeError")
    ELSE IF StrLen(data) > DATA_MAX_LENGTH THEN Raise(self, "ValueError")
    ELSE Ret([self EXCEPT !.data = data], "none", 0, FALSE, Bytes(<<>>, 0))

__init__(source_port, destination_port, data) ==
    set_data([source_port |-> source_port,
              destination_port |-> destination_port,
              checksum |-> 0,
              length |-> 0,
              is_valid |-> FALSE,
              data |-> Str(<<>>, 0)], data)

get_length(self) == 64 + StrLen(self.data)

RECURSIVE serialize(_, _)
RECURSIVE get_checksum(_)

\* serialize with line 77 storing the local checksum in every mode
serialize_always_stores(self, use_checksum_zero) ==
    LET c == IF use_checksum_zero THEN Ret(self, "none", 0, FALSE, Bytes(<<>>, 0))
             ELSE get_checksum(self)
    IN  IF c.exc # "none" THEN Raise(c.obj, c.exc)
        ELSE LET checksum == c.num
                 self1 == [c.obj EXCEPT !.checksum = checksum]
                 header == <<self1.source_port, self1.destination_port,
                             get_length(self1), checksum>>
             IN  IF \E i \in 1..4 : ~to_bytes_ok(header[i])
                 THEN Raise(self1, "OverflowError")
                 ELSE IF ~encode_ok(self1.data)
                 THEN Raise(self1, "UnicodeEncodeError")
                 ELSE Ret(self1, "none", 0, FALSE,
                          Concat(Bytes(to_bytes(header[1]) \o to_bytes(header[2])
                                       \o to_bytes(header[3]) \o to_bytes(header[4]), 0),
                                 encode(self1.data)))

serialize(self, use_checksum_zero) ==
    LET c == IF use_checksum_zero THEN Ret(self, "none", 0, FALSE, Bytes(<<>>, 0))
             ELSE get_checksum(self)
    IN  IF c.exc # "none" THEN Raise(c.obj, c.exc)
        ELSE LET checksum == c.num
                 self1 == [c.obj EXCEPT !.checksum =
                              IF use_checksum_zero THEN @ ELSE checksum]
                 header == <<self1.source_port, self1.destination_port,
                             get_length(self1), checksum>>
             IN  IF \E i \in 1..4 : ~to_bytes_ok(header[i])
                 THEN Raise(self1, "OverflowError")
                 ELSE IF ~encode_ok(self1.data)
                 THEN Raise(self1, "UnicodeEncodeError")
                 ELSE Ret(self1, "none", 0, FALSE,
                          Concat(Bytes(to_bytes(header[1]) \o to_bytes(header[2])
                                       \o to_bytes(header[3]) \o to_bytes(header[4]), 0),
                                 encode(self1.data)))

get_checksum(self) ==
    LET r == serialize(self, TRUE)
    IN  IF r.exc # "none" THEN Raise(r.obj, r.exc)
        ELSE LET s == IF BLen(r.b) % 2 # 0 THEN Concat(r.b, ZERO_BYTE) ELSE r.b
             IN  \* s is a local that the method drops: it returns the constant 1
                 Ret(r.obj, "none", 1, FALSE, Bytes(<<>>, 0))

\* the left operand self.checksum is read before get_checksum() is called
is_checksum_valid(self) ==
    LET r == get_checksum(self)
    IN  IF r.exc # "none" THEN Raise(r.obj, r.exc)
        ELSE Ret(r.obj, "none", 0, self.checksum = r.num, Bytes(<<>>, 0))

deserialize(self, b) ==
    LET self1 == [self EXCEPT !.source_port = from_bytes(Slice(b, 0, 2)),
                              !.destination_port = from_bytes(Slice(b, 2, 4)),
                              !.length = from_bytes(Slice(b, 4, 6)),
                              !.checksum = from_bytes(Slice(b, 6, 8))]
    IN  IF ~decode_ok(SliceFrom8(b)) THEN Raise(self1, "UnicodeDecodeError")
        ELSE LET self2 == [self1 EXCEPT !.data = decode(SliceFrom8(b))]
                 v == is_checksum_valid(self2)
             IN  IF v.exc # "none" THEN Raise(v.obj, v.exc)
                 ELSE Ret([v.obj EXCEPT !.is_valid = v.flag], "none", 0, FALSE,
                          Bytes(<<>>, 0))

----------------------------------------------------------------------------
(* Inputs of the calls *)

SrcPorts == {12345, 65536}

DstPorts == {80, -1}

\* 'h' and e-acute (two bytes in UTF-8)
Chars == {104, 233}

Heads == UNION {[1..n -> Chars] : n \in 0..MaxHead}

\* payloads: short strings, the euro sign (three bytes), a lone surrogate,
\* long runs around the limits 65471 and DATA_MAX_LENGTH, None and a non-str
DataInputs ==
    {Str(s, 0) : s \in Heads}
    \cup {Str(<<8364>>, 0), Str(<<55296>>, 0), Str(<<233>>, 65470)}
    \cup {Str(<<>>, n) : n \in {65471, 65472, DATA_MAX_LENGTH, DATA_MAX_LENGTH + 1}}
    \cup {NoneValue, NonStrValue}

\* the bytes of Udp(12345, 80, 'h' + e-acute).serialize(), which reach the
\* receiver altered
Sent == serialize(__init__(12345, 80, Str(<<104, 233>>, 0)).obj, FALSE).b.b

FlipBit(byte, k) ==
    IF (byte \div (2 ^ k)) % 2 = 1 THEN byte - (2 ^ k) ELSE byte + (2 ^ k)

\* the lowest and the highest bit of a byte
FlipBits == {0, 7}

\* the bytes handed to deserialize, apart from the bytes serialize just returned:
\* Sent with one bit flipped (pos is the bit's index), cut short to pos bytes,
\* or with its checksum field zeroed, and hand-built byte sequences
RxInputs ==
    {[kind |-> "flip", pos |-> 8 * i + k,
      b |-> Bytes([Sent EXCEPT ![i + 1] = FlipBit(@, k)], 0)] :
        <<i, k>> \in (0..(Len(Sent) - 1)) \X FlipBits}
    \cup {[kind |-> "cut", pos |-> n, b |-> Bytes(SubSeq(Sent, 1, n), 0)] :
        n \in 0..(Len(Sent) - 1)}
    \cup {[kind |-> "zero", pos |-> 0, b |-> Bytes([Sent EXCEPT ![7] = 0, ![8] = 0], 0)]}
    \cup {[kind |-> "raw", pos |-> 0, b |-> x] : x \in
           {Bytes(<<48, 57, 0, 80, 0, 10, 103, 3, 104, 105>>, 0),
            Bytes(<<48, 57, 0, 80, 0, 8, 207, 110>>, 0),
            Bytes(<<48, 57, 0, 80, 0, 9, 0, 1, 104, 105>>, 0),
            Bytes(<<48, 57, 0, 80, 0, 72, 0, 1, 226, 130, 172>>, 0),
            Bytes(<<48, 57, 0, 80, 255, 255, 0, 1>>, 65472)}}

----------------------------------------------------------------------------
(* The calls *)

NoBytes == Bytes(<<>>, 0)

Call(op, r, kind, pos, sp, dp, data, b) ==
    [op |-> op, exc |-> r.exc, num |-> r.num, flag |-> r.flag, ret |-> r.b,
     kind |-> kind, pos |-> pos, sp |-> sp, dp |-> dp, data |-> data, b |-> b]

\* u = Udp(source_port, destination_port, data)
Init ==
    \E sp \in SrcPorts, dp \in DstPorts, d \in DataInputs :
        LET r == __init__(sp, dp, d)
        IN  /\ r.exc = "none"
            /\ obj = r.obj
            /\ last = Call("construct", r, "none", 0, sp, dp, d, NoBytes)

\* u = Udp(source_port, destination_port, data); a raise leaves u as it was
Construct(sp, dp, d) ==
    LET r == __init__(sp, dp, d)
    IN  /\ obj' = IF r.exc = "none" THEN r.obj ELSE obj
        /\ last' = Call("construct", r, "none", 0, sp, dp, d, NoBytes)

SetData(d) ==
    LET r == set_data(obj, d)
    IN  /\ obj' = r.obj
        /\ last' = Call("set_data", r, "none", 0, 0, 0, d, NoBytes)

GetLength ==
    /\ obj' = obj
    /\ last' = Call("get_length", Ret(obj, "none", get_length(obj), FALSE, NoBytes),
                    "none", 0, 0, 0, Str(<<>>, 0), NoBytes)

GetChecksum ==
    LET r == get_checksum(obj)
    IN  /\ obj' = r.obj
        /\ last' = Call("get_checksum", r, "none", 0, 0, 0, Str(<<>>, 0), NoBytes)

IsChecksumValid ==
    LET r == is_checksum_valid(obj)
    IN  /\ obj' = r.obj
        /\ last' = Call("is_checksum_valid", r, "none", 0, 0, 0, Str(<<>>, 0), NoBytes)

Serialize ==
    LET r == serialize(obj, FALSE)
    IN  /\ obj' = r.obj
        /\ last' = Call("serialize", r, "none", 0, 0, 0, Str(<<>>, 0), NoBytes)

\* u.deserialize(u.serialize()): the bytes the preceding call returned; last
\* keeps the fields of the segment they were serialized from
DeserializeWire ==
    /\ last.op = "serialize"
    /\ last.exc = "none"
    /\ LET r == deserialize(obj, last.ret)
       IN  /\ obj' = r.obj
           /\ last' = Call("deserialize", r, "wire", 0, obj.source_port,
                           obj.destination_port, obj.data, last.ret)

\* u.deserialize(b) for bytes b that arrive from elsewhere
Deserialize(in) ==
    LET r == deserialize(obj, in.b)
    IN  /\ obj' = r.obj
        /\ last' = Call("deserialize", r, in.kind, in.pos, 0, 0, Str(<<>>, 0), in.b)

\* u.deserialize(): the default argument is the type bytearray, and
\* bytearray[0:2] raises TypeError before any field is assigned
DeserializeDefault ==
    /\ obj' = obj
    /\ last' = Call("deserialize", Raise(obj, "TypeError"), "default", 0, 0, 0,
                    Str(<<>>, 0), NoBytes)

Next ==
    \/ \E sp \in SrcPorts, dp \in DstPorts, d \in DataInputs : Construct(sp, dp, d)
    \/ \E d \in DataInputs : SetData(d)
    \/ GetLength
    \/ GetChecksum
    \/ IsChecksumValid
    \/ Serialize
    \/ DeserializeWire
    \/ \E in \in RxInputs : Deserialize(in)
    \/ DeserializeDefault

Spec == Init /\ [][Next]_vars

----------------------------------------------------------------------------
(* Vocabulary of the properties *)

PortsInRange(sp, dp) == sp \in 0..65535 /\ dp \in 0..65535

\* number of bytes of the payload on the wire
PayloadBytes(d) == Len(Utf8Seq(d.s)) + d.fill

\* the length field, bytes 4..5 of a byte sequence
DeclaredLength(x) == from_bytes(Slice(x, 4, 6))

\* the checksum field, bytes 6..7 of a byte sequence
ChecksumField(x) == from_bytes(Slice(x, 6, 8))

\* end-around carry: fold the bits above bit 15 back in until none remain
RECURSIVE EndAround(_)
EndAround(n) == IF n > 65535 THEN EndAround((n % 65536) + (n \div 65536)) ELSE n

\* sum of the 16-bit big-endian words of the bytes p, an odd tail padded with 0
RECURSIVE WordSum(_)
WordSum(p) ==
    IF p = <<>> THEN 0
    ELSE IF Len(p) = 1 THEN p[1] * 256
    ELSE EndAround(p[1] * 256 + p[2] + WordSum(SubSeq(p, 3, Len(p))))

\* the words of a run of n bytes 0x61 that starts at byte offset off
RunSum(off, n) ==
    LET high == IF off % 2 = 0 THEN (n + 1) \div 2 ELSE n \div 2
    IN  97 * 256 * high + 97 * (n - high)

\* the reference one's-complement checksum of a segment, over its ports, its
\* derived length, a zero checksum field and its payload
RefChecksum(seg) ==
    LET p == Utf8Seq(seg.data.s)
        sum == EndAround(seg.source_port + seg.destination_port + get_length(seg)
                         + WordSum(IF Len(p) % 2 = 0 THEN p
                                   ELSE IF seg.data.fill = 0 THEN p ELSE p \o <<97>>)
                         + RunSum(0, IF Len(p) % 2 = 0 THEN seg.data.fill
                                     ELSE IF seg.data.fill = 0 THEN 0
                                     ELSE seg.data.fill - 1))
    IN  IF 65535 - sum = 0 THEN 65535 ELSE 65535 - sum

----------------------------------------------------------------------------
(* Properties *)

\* C1: round trip.  For ports in 0..65535 and a payload of at most 65507
\* bytes, serialize returns bytes, and deserializing them yields the same
\* source_port, destination_port and payload, the length the sender derived,
\* and is_valid = TRUE.
RoundTrip ==
    /\ (/\ last.op = "serialize"
        /\ PortsInRange(obj.source_port, obj.destination_port)
        /\ encode_ok(obj.data)
        /\ PayloadBytes(obj.data) <= 65507)
       => last.exc = "none"
    /\ (/\ last.op = "deserialize"
        /\ last.kind = "wire"
        /\ PortsInRange(last.sp, last.dp)
        /\ PayloadBytes(last.data) <= 65507)
       => /\ last.exc = "none"
          /\ obj.source_port = last.sp
          /\ obj.destination_port = last.dp
          /\ obj.data = last.data
          /\ obj.length = DeclaredLength(last.b)
          /\ obj.is_valid

\* C2: length invariant.  The length derived for a segment, the length field
\* serialize writes and the length stored by decoding serialized bytes all
\* equal 8 + the number of payload bytes.
LengthInvariant ==
    /\ (last.op = "get_length" /\ encode_ok(obj.data))
       => last.num = 8 + PayloadBytes(obj.data)
    /\ (last.op = "serialize" /\ last.exc = "none")
       => DeclaredLength(last.ret) = 8 + PayloadBytes(obj.data)
    /\ (last.op = "deserialize" /\ last.kind = "wire" /\ last.exc = "none")
       => obj.length = 8 + PayloadBytes(obj.data)

\* C3: the checksum is the one's-complement checksum.  get_checksum returns,
\* and serialize writes into bytes 6..7, the complemented end-around-carry sum
\* of the segment's 16-bit words, with 0x0000 replaced by 0xFFFF.
ChecksumIsOnesComplement ==
    /\ (/\ last.op = "get_checksum"
        /\ last.exc = "none")
       => last.num = RefChecksum(obj) /\ last.num # 0
    /\ (/\ last.op = "serialize"
        /\ last.exc = "none")
       => ChecksumField(last.ret) = RefChecksum(obj) /\ obj.checksum = RefChecksum(obj)

\* C4: checksum sensitivity.  Serialized bytes with a non-zero checksum field
\* and one bit flipped outside bytes 6..7 decode, when they decode, to a
\* segment with is_valid = FALSE.
ChecksumSensitivity ==
    (/\ last.op = "deserialize"
     /\ last.kind = "flip"
     /\ last.pos \div 8 \notin {6, 7}
     /\ ChecksumField(last.b) # 0
     /\ last.exc = "none")
    => obj.is_valid = FALSE

\* C5: reserved zero checksum.  Decoding bytes whose checksum field is 00 00
\* sets is_valid = TRUE, whatever the ports and the payload.
ReservedZeroChecksum ==
    (/\ last.op = "deserialize"
     /\ last.kind # "default"
     /\ Slice(last.b, 6, 8) = <<0, 0>>
     /\ last.exc = "none")
    => obj.is_valid = TRUE

\* C6: truncation.  deserialize of fewer than 8 bytes fails with
\* TruncatedHeader and leaves every field of the segment as it was;
\* deserialize of 8 bytes that declare length 8 succeeds with an empty payload
\* and length = 8.
Truncation ==
    [][(last'.op = "deserialize" /\ last'.kind # "default")
       => /\ BLen(last'.b) < 8 => (last'.exc = "TruncatedHeader" /\ obj' = obj)
          /\ (BLen(last'.b) = 8 /\ DeclaredLength(last'.b) = 8)
             => /\ last'.exc = "none"
                /\ obj'.data = Str(<<>>, 0)
                /\ obj'.length = 8]_vars

\* C7: length mismatch.  deserialize of at least 8 bytes whose length field
\* differs from the number of bytes present fails with LengthMismatch.
LengthMismatch ==
    (/\ last.op = "deserialize"
     /\ last.kind # "default"
     /\ BLen(last.b) >= 8
     /\ DeclaredLength(last.b) # BLen(last.b))
    => last.exc = "LengthMismatch"

\* C8: the constructor validates.  Udp(sp, dp, payload) succeeds exactly when
\* both ports are in 0..65535 and the payload has at most 65507 bytes, fails
\* with InvalidPort for a port out of range and with the payload-too-large
\* error (ValueError) for a longer payload; no segment holds a port out of
\* range.
ConstructValidates ==
    /\ (last.op = "construct" /\ last.data.kind = "str")
       => /\ last.exc = "none"
             <=> (PortsInRange(last.sp, last.dp) /\ PayloadBytes(last.data) <= 65507)
          /\ ~PortsInRange(last.sp, last.dp) => last.exc = "InvalidPort"
          /\ (PortsInRange(last.sp, last.dp) /\ PayloadBytes(last.data) > 65507)
             => last.exc = "ValueError"
    /\ (last.op \in {"construct", "set_data", "serialize"})
       => PortsInRange(obj.source_port, obj.destination_port)

\* C9: is_checksum_valid is a pure predicate.  A call in any state, whether it
\* returns or raises, leaves source_port, destination_port, data, length,
\* checksum and is_valid as they were.
IsChecksumValidIsPure ==
    [][last'.op = "is_checksum_valid" => obj' = obj]_vars

\* C9 witness: is_checksum_valid has returned True on a decoded segment whose
\* stored checksum is not the zero that serialize(use_checksum_zero=True) emits.
IsChecksumValidCalled ==
    /\ last.op = "is_checksum_valid"
    /\ last.exc = "none"
    /\ last.flag
    /\ obj.checksum # 0
    /\ obj.is_valid

\* C10: every accepted segment serializes.  The length derived for a payload
\* the constructor or set_data accepted is at most 65535, so serialize of a
\* segment with ports in range returns bytes whose length field holds it.
AcceptedSegmentsSerialize ==
    /\ (last.op \in {"construct", "set_data"} /\ last.exc = "none")
       => get_length(obj) <= 65535
    /\ (/\ last.op = "serialize"
        /\ PortsInRange(obj.source_port, obj.destination_port)
        /\ encode_ok(obj.data)
        /\ StrLen(obj.data) <= DATA_MAX_LENGTH)
       => /\ last.exc = "none"
          /\ DeclaredLength(last.ret) = get_length(obj)

====
